---- MODULE Spec2Model ----
(***************************************************************************)
(* Model of HueChatbot (src/chatbot/Chatbot.py): the retrieval-augmented   *)
(* answer pipeline.  One pipeline instance owns a search cache and a chat  *)
(* history; a call of chat() or of _search_duckduckgo() runs on one thread *)
(* of control (pc) and _process_urls_parallel fans out into fetch tasks    *)
(* run by a ThreadPoolExecutor.                                            *)
(*                                                                         *)
(* Strings are modelled by what the code observes of them: a page text by  *)
(* its length, the combined text by the sequence of the task results that  *)
(* were appended (each followed by the "\n\n" separator), the rendered     *)
(* history block by the sequence of turns that were formatted into it.     *)
(***************************************************************************)
EXTENDS Integers, Sequences, FiniteSets, TLC

\* ---------------------------------------------------------------- bounds
MaxUrls == 4            \* longest URL list handed to _process_urls_parallel
MaxTurns == 4           \* chat() calls per behaviour
MaxCalls == 3           \* direct _search_duckduckgo() calls per behaviour
MaxHistoryCfg == 2      \* largest configured MAX_HISTORY
MaxResultsCfg == 2      \* largest max_results / MAX_SEARCH_RESULTS
MaxPoolUrls == 6        \* longest URL list of a batch larger than the pool
MaxCallers == 2         \* threads calling _search_duckduckgo concurrently
MaxLiveUrls == 4        \* longest URL list of a batch followed to its return

\* ------------------------------------------------------ program constants
MaxWorkers == 5         \* ThreadPoolExecutor(max_workers=5)
DocCap == 2000          \* if len(text) > 2000
MarkerLen == 3          \* len("...")
SepLen == 2             \* len("\n\n")
SizeThreshold == 5000   \* if len(combined_text) > 5000
MinUsable == 50         \* len(content.strip()) > 50

\* --------------------------------------------------------------- inputs
Queries == {"q1", "q2"}                 \* queries of direct searches
ChatQuestions == {"q1"}                 \* questions put to chat()
UrlPool == {"hue.vn", "visit.vn", "FaceBook.com"}
ChatPages == {49, 50, 51}               \* page text lengths served to chat()
BatchPages == {988, 3000}               \* page text lengths served to a batch
ExtractPages == {0, 2000, 2001, 3000}   \* the same, around the length cap
LivePages == {3000}                     \* the same, for a batch followed to its end
PoolPages == {}                         \* no page is served: every fetch fails
ErrMsgs == {"quota"}                    \* messages of generation errors

\* ------------------------------------------------------------- answers
NoInfo == [kind |-> "sentinel", text |-> "Khong tim thay thong tin."]
NoExtract == [kind |-> "sentinel", text |-> "Khong trich xuat duoc thong tin."]
Generated == [kind |-> "generated", text |-> "response.text.strip()"]
NoAnswer == [kind |-> "none", text |-> ""]

\* ------------------------------------------------------------ search
\* the URL is compared as it is written
LowerUnchanged(url) == url

\* url.lower() on the URLs of the pool
Lower(url) == IF url = "FaceBook.com" THEN "facebook.com" ELSE url

Denylist == {".pdf", "facebook", "youtube", "instagram", "shopee", "tiki"}

\* bad in url.lower(): the substring relation on the lowered pool
Contains(lowered, bad) == <<lowered, bad>> \in {<<"facebook.com", "facebook">>}

IsBlocked(url) == \E bad \in Denylist : Contains(Lower(url), bad)

\* the for-loop over results: append clean URLs, break at max_results
RECURSIVE FilterFrom(_, _, _, _)
FilterFrom(results, i, acc, max_results) ==
    IF i > Len(results) THEN acc
    ELSE LET acc2 == IF IsBlocked(results[i]) THEN acc
                     ELSE Append(acc, results[i])
         IN IF Len(acc2) >= max_results THEN acc2
            ELSE FilterFrom(results, i + 1, acc2, max_results)

FilterUrls(results, max_results) == FilterFrom(results, 1, <<>>, max_results)

\* sequences over S without repetition, of length at most n
RECURSIVE DistinctSeqs(_, _)
DistinctSeqs(S, n) ==
    IF n = 0 THEN {<<>>}
    ELSE LET shorter == DistinctSeqs(S, n - 1)
             longest == {t \in shorter : Len(t) = n - 1}
         IN shorter \cup
            UNION {{Append(t, x) : x \in S \ {t[i] : i \in 1..Len(t)}} :
                   t \in longest}

\* what ddgs.text(..., max_results = 2 * max_results) may return
ProviderResults(max_results) == DistinctSeqs(UrlPool, 2 * max_results)

\* ------------------------------------------------------------ extractor
\* the marker is appended to every text
ExtractTextAlwaysMarked(rawLen) ==
    (IF rawLen > DocCap THEN DocCap ELSE rawLen) + MarkerLen

\* the text is returned without the cut
ExtractTextUncut(rawLen) == rawLen

\* _extract_article_fast on a page whose visible text has rawLen characters:
\* the length of the returned text
ExtractText(rawLen) ==
    IF rawLen > DocCap THEN DocCap + MarkerLen ELSE rawLen

\* a failed fetch or parse: return ""
ExtractFailed == 0

\* get_text(strip=True) and text[:2000] + "..." leave no outer whitespace:
\* the stripped length of an extractor result is its length
StripLen(content) == content

\* the length test with a mistyped limit
IsUsableTypo(content) == content # 0 /\ StripLen(content) > 5

\* every result is taken as usable
IsUsableAny(content) == TRUE

\* if content and len(content.strip()) > 50
IsUsable(content) == content # 0 /\ StripLen(content) > MinUsable

\* ------------------------------------------------------------- history
\* self.history[-self.max_history:]  (Python slice: -0 is 0)
RecentHistory(hist, n) ==
    IF n = 0 THEN hist
    ELSE IF Len(hist) <= n THEN hist
    ELSE SubSeq(hist, Len(hist) - n + 1, Len(hist))

\* ---------------------------------------------------------- generation
GenOutcomes == {[ok |-> TRUE, msg |-> ""]} \cup
               {[ok |-> FALSE, msg |-> e] : e \in ErrMsgs}

\* f"Loi khi goi AI Gemini: {e}"
ErrorAnswer(e) == [kind |-> "error", text |-> e]

\* the provider's error is not caught
GenerateAnswerRaises(outcome) ==
    IF outcome.ok THEN [raised |-> FALSE, value |-> Generated]
    ELSE [raised |-> TRUE, value |-> NoAnswer]

\* _generate_answer: try generate_content ... except Exception as e
GenerateAnswer(outcome) ==
    IF outcome.ok THEN [raised |-> FALSE, value |-> Generated]
    ELSE [raised |-> FALSE, value |-> ErrorAnswer(outcome.msg)]

\* the empty list is not short-circuited
SearchEmptyIgnored(u) == FALSE

\* if not urls
SearchEmpty(u) == u = <<>>

\* --------------------------------------------------------------- state
VARIABLES
    history,            \* self.history: sequence of [q, a]
    search_cache,       \* self.search_cache: query -> URL list
    max_history,        \* self.max_history
    max_search_results, \* self.max_search_results
    pc,                 \* position of the calling thread
    mode,               \* "chat" or "search": the entry point in progress
    question,           \* argument of the call in progress
    max_results,        \* _search_duckduckgo's max_results
    history_context,    \* chat: turns rendered into the history block
    urls,               \* result of the search step
    answer,             \* _rag_process's result
    raised,             \* an exception left the call in progress
    fstate,             \* per task: "pending", "running", "finished", "cancelled"
    result,             \* per finished task: the text it returned
    snap,               \* as_completed: tasks finished when it was entered
    waiterQ,            \* as_completed: waiter.finished_futures
    yielded,            \* as_completed: tasks already yielded
    combined_text,      \* tasks whose text was appended, in order
    successful_count,   \* successful_count
    cancelIdx,          \* position of the cancel loop
    stop,               \* how the collection loop ended
    pages,              \* the web: lengths of the visible text of the pages
    completions,        \* history: finished tasks not yet yielded, in the
                        \* order they completed
    inOrder,            \* history: usable texts were appended in that order
    lateInOrder,        \* history: the same, for the texts yielded from the
                        \* waiter's list
    atTimeout,          \* history: combined_text when TimeoutError was raised
    providerCalls,      \* history: ddgs.text calls of the call in progress
    aggCalls,           \* history: _process_urls_parallel calls of the call
    genCalls,           \* history: generate_content calls of the call
    genErr,             \* history: error raised by generate_content in the call
    searchErr,          \* history: ddgs.text raised in the call in progress
    timedOut,           \* history: as_completed raised TimeoutError
    calls,              \* history: completed direct searches
    results,            \* _search_duckduckgo: the provider's results
    fetched,            \* per finished task: the page it was served
    callers,            \* concurrent callers of _search_duckduckgo
    cache_lock,         \* self.cache_lock: 0 when free, else its holder
    produced            \* history: <<query, urls>> of every filtered list

instVars == <<history, search_cache, max_history, max_search_results>>
callVars == <<pc, mode, question, max_results, history_context, urls, answer,
              raised>>
aggVars == <<fstate, result, snap, waiterQ, yielded, combined_text,
             successful_count, cancelIdx, stop>>
histVars == <<pages, completions, inOrder, lateInOrder, atTimeout, providerCalls, aggCalls, genCalls,
              genErr, searchErr, timedOut, calls>>
moreVars == <<callers, cache_lock, produced>>
vars == <<instVars, callVars, aggVars, histVars, results, fetched, moreVars>>

NoUrls == <<>>

\* a caller of _search_duckduckgo that is not in a call
IdleCaller == [pc |-> "idle", q |-> "q1", mr |-> 1, urls |-> NoUrls,
               provider |-> 0, stored |-> FALSE]

\* no concurrent callers, the lock is free
RaceIdle ==
    /\ callers = [i \in {} |-> IdleCaller]
    /\ cache_lock = 0
    /\ produced = {}

AggIdle ==
    /\ fstate = <<>> /\ result = <<>> /\ snap = {} /\ waiterQ = <<>>
    /\ yielded = {} /\ combined_text = <<>> /\ successful_count = 0
    /\ cancelIdx = 0 /\ stop = "none"
    /\ completions = <<>> /\ inOrder = TRUE /\ lateInOrder = TRUE
    /\ atTimeout = <<>> /\ timedOut = FALSE
    /\ fetched = <<>>

\* __init__: empty history and cache, configuration from the environment
Init ==
    /\ history = <<>>
    /\ search_cache = [q \in {} |-> NoUrls]
    /\ max_history \in 0..MaxHistoryCfg
    /\ max_search_results \in 1..MaxResultsCfg
    /\ pc = "idle" /\ mode = "chat" /\ question = "q1"
    /\ max_results = max_search_results
    /\ history_context = <<>> /\ urls = NoUrls /\ answer = NoAnswer
    /\ raised = FALSE
    /\ AggIdle
    /\ pages = ChatPages
    /\ providerCalls = 0 /\ aggCalls = 0 /\ genCalls = 0 /\ genErr = ""
    /\ searchErr = FALSE
    /\ calls = <<>>
    /\ results = <<>>
    /\ RaceIdle

\* the aggregator's locals and the per-call history variables, cleared
ResetAgg ==
    /\ fstate' = <<>> /\ result' = <<>> /\ snap' = {} /\ waiterQ' = <<>>
    /\ yielded' = {} /\ combined_text' = <<>> /\ successful_count' = 0
    /\ cancelIdx' = 0 /\ stop' = "none"
    /\ completions' = <<>> /\ inOrder' = TRUE /\ lateInOrder' = TRUE
    /\ atTimeout' = <<>> /\ timedOut' = FALSE
    /\ fetched' = <<>>

ResetCounters ==
    /\ providerCalls' = 0 /\ aggCalls' = 0 /\ genCalls' = 0 /\ genErr' = ""
    /\ searchErr' = FALSE

\* ------------------------------------------------- _search_duckduckgo
\* a direct call _search_duckduckgo(query, max_results)
CallSearch(q, mr) ==
    /\ pc = "idle" /\ Len(calls) < MaxCalls
    /\ mode' = "search" /\ question' = q /\ max_results' = mr
    /\ pc' = "search_check"
    /\ urls' = NoUrls /\ answer' = NoAnswer /\ raised' = FALSE
    /\ ResetCounters
    /\ UNCHANGED <<moreVars, results, fetched,
                   instVars, history_context, aggVars, pages, completions, inOrder, lateInOrder, atTimeout,
                   timedOut, calls>>

\* with self.cache_lock: if query in self.search_cache: return it
SearchCheck ==
    /\ pc = "search_check"
    /\ IF question \in DOMAIN search_cache
       THEN urls' = search_cache[question] /\ pc' = "search_ret"
       ELSE urls' = urls /\ pc' = "search_provider"
    /\ UNCHANGED <<moreVars, results, fetched,
                   instVars, mode, question, max_results, history_context,
                   answer, raised, aggVars, histVars>>

\* the failure is remembered as an empty result
CacheOnFailureStoresEmpty(cache, query) ==
    [q \in DOMAIN cache \cup {query} |-> IF q = query THEN NoUrls ELSE cache[q]]

\* except Exception: the cache is not touched
CacheOnFailure(cache, query) == cache

\* the provider is asked again after a failure
AfterProviderFailureRetries == "search_provider"

\* except Exception as e: print(...); return []
AfterProviderFailure == "search_ret"

\* ddgs.text(...) raised: except Exception: return []
SearchProviderFails ==
    /\ pc = "search_provider"
    /\ providerCalls' = providerCalls + 1
    /\ searchErr' = TRUE
    /\ urls' = NoUrls
    /\ search_cache' = CacheOnFailure(search_cache, question)
    /\ pc' = AfterProviderFailure
    /\ UNCHANGED <<moreVars, results, fetched,
                   history, max_history, max_search_results,
                   mode, question, max_results, history_context,
                   answer, raised, aggVars, pages, completions, inOrder, lateInOrder, atTimeout, aggCalls,
                   genCalls, genErr, timedOut, calls>>

\* ddgs.text(...) returned results: filter them
SearchProviderReturns ==
    /\ pc = "search_provider"
    /\ \E r \in ProviderResults(max_results) :
         /\ results' = r
         /\ urls' = FilterUrls(r, max_results)
    /\ providerCalls' = providerCalls + 1
    /\ pc' = "search_store"
    /\ UNCHANGED <<moreVars, fetched,
                   instVars, mode, question, max_results, history_context,
                   answer, raised, aggVars, pages, completions, inOrder, lateInOrder, atTimeout, aggCalls,
                   genCalls, genErr, searchErr, timedOut, calls>>

\* an empty list is not stored
CacheStoreSkipsEmpty(cache, query, u) ==
    IF u = <<>> THEN cache
    ELSE [q \in DOMAIN cache \cup {query} |-> IF q = query THEN u ELSE cache[q]]

\* a store that is lost
CacheStoreDropped(cache, query, u) == cache

\* self.search_cache[query] = urls
CacheStore(cache, query, u) ==
    [q \in DOMAIN cache \cup {query} |-> IF q = query THEN u ELSE cache[q]]

\* with self.cache_lock: self.search_cache[query] = urls; return urls
SearchStore ==
    /\ pc = "search_store"
    /\ search_cache' = CacheStore(search_cache, question, urls)
    /\ results' = <<>>
    /\ pc' = "search_ret"
    /\ UNCHANGED <<moreVars, fetched,
                   history, max_history, max_search_results, mode, question,
                   max_results, history_context, urls, answer, raised,
                   aggVars, histVars>>

\* the direct call returns urls to its caller
SearchReturn ==
    /\ pc = "search_ret" /\ mode = "search"
    /\ calls' = Append(calls, [q |-> question, mr |-> max_results,
                               ret |-> urls, provider |-> providerCalls,
                               failed |-> searchErr])
    /\ pc' = "idle"
    /\ UNCHANGED <<moreVars, results, fetched,
                   instVars, mode, question, max_results, history_context,
                   urls, answer, raised, aggVars, pages, completions, inOrder, lateInOrder, atTimeout,
                   providerCalls, aggCalls, genCalls, genErr, searchErr,
                   timedOut>>

SearchNext ==
    \/ \E q \in Queries, mr \in 1..MaxResultsCfg : CallSearch(q, mr)
    \/ SearchCheck
    \/ SearchProviderFails
    \/ SearchProviderReturns
    \/ SearchStore
    \/ SearchReturn

SpecSearch == Init /\ [][SearchNext]_vars

\* ------------------------------- _search_duckduckgo, concurrent callers
\* each caller i runs one call; callers[i].pc is its position:
\*   "check_wait"  blocked on  with self.cache_lock:  before the check
\*   "checking"    inside that with block
\*   "provider"    in the try block, calling DDGS().text and filtering
\*   "store_wait"  blocked on  with self.cache_lock:  before the store
\*   "storing"     inside that with block
\*   "ret"         about to return urls
Callers == DOMAIN callers

\* the lock is not released when the with block of the check is left
LockAfterCheckKept(i) == i

\* leaving  with self.cache_lock:  after the presence check releases the lock
LockAfterCheck(i) == 0

\* the stored list is appended to the list already cached for the query
CacheStoreMerged(cache, query, u) ==
    [q \in DOMAIN cache \cup {query} |->
        IF q = query
        THEN (IF query \in DOMAIN cache THEN cache[query] ELSE <<>>) \o u
        ELSE cache[q]]

\* self.search_cache[query] = urls, by one of the concurrent callers
CacheAssign(cache, query, u) == CacheStore(cache, query, u)

\* thread i calls _search_duckduckgo(q): max_results is the instance's
RaceCall(i, q) ==
    /\ callers[i].pc = "idle"
    /\ callers' = [callers EXCEPT ![i] =
                      [pc |-> "check_wait", q |-> q,
                       mr |-> max_search_results,
                       urls |-> NoUrls, provider |-> 0, stored |-> FALSE]]
    /\ UNCHANGED <<cache_lock, produced, results, fetched, instVars,
                   callVars, aggVars, histVars>>

\* with self.cache_lock: (before the check) the lock is acquired
RaceAcquireCheck(i) ==
    /\ callers[i].pc = "check_wait"
    /\ cache_lock = 0
    /\ cache_lock' = i
    /\ callers' = [callers EXCEPT ![i].pc = "checking"]
    /\ UNCHANGED <<produced, results, fetched, instVars, callVars, aggVars,
                   histVars>>

\* if query in self.search_cache: return self.search_cache[query]
RaceCheck(i) ==
    /\ callers[i].pc = "checking"
    /\ IF callers[i].q \in DOMAIN search_cache
       THEN callers' = [callers EXCEPT
                           ![i].urls = search_cache[callers[i].q],
                           ![i].pc = "ret"]
       ELSE callers' = [callers EXCEPT ![i].pc = "provider"]
    /\ cache_lock' = LockAfterCheck(i)
    /\ UNCHANGED <<produced, results, fetched, instVars, callVars, aggVars,
                   histVars>>

\* ddgs.text(...) raised: except Exception: return []
RaceProviderFails(i) ==
    /\ callers[i].pc = "provider"
    /\ callers' = [callers EXCEPT ![i].urls = NoUrls,
                                  ![i].provider = @ + 1,
                                  ![i].pc = "ret"]
    /\ UNCHANGED <<cache_lock, produced, results, fetched, instVars,
                   callVars, aggVars, histVars>>

\* ddgs.text(...) returned results and the for loop filtered them
RaceProviderReturns(i) ==
    /\ callers[i].pc = "provider"
    /\ \E r \in ProviderResults(callers[i].mr) :
         LET u == FilterUrls(r, callers[i].mr)
         IN /\ callers' = [callers EXCEPT ![i].urls = u,
                                          ![i].provider = @ + 1,
                                          ![i].pc = "store_wait"]
            /\ produced' = produced \cup {<<callers[i].q, u>>}
    /\ UNCHANGED <<cache_lock, results, fetched, instVars, callVars,
                   aggVars, histVars>>

\* with self.cache_lock: (before the store) the lock is acquired
RaceAcquireStore(i) ==
    /\ callers[i].pc = "store_wait"
    /\ cache_lock = 0
    /\ cache_lock' = i
    /\ callers' = [callers EXCEPT ![i].pc = "storing"]
    /\ UNCHANGED <<produced, results, fetched, instVars, callVars, aggVars,
                   histVars>>

\* self.search_cache[query] = urls; the with block is left
RaceStore(i) ==
    /\ callers[i].pc = "storing"
    /\ search_cache' = CacheAssign(search_cache, callers[i].q,
                                   callers[i].urls)
    /\ cache_lock' = 0
    /\ callers' = [callers EXCEPT ![i].stored = TRUE, ![i].pc = "ret"]
    /\ UNCHANGED <<produced, results, fetched, history, max_history,
                   max_search_results, callVars, aggVars, histVars>>

\* return urls
RaceReturn(i) ==
    /\ callers[i].pc = "ret"
    /\ callers' = [callers EXCEPT ![i].pc = "done"]
    /\ UNCHANGED <<cache_lock, produced, results, fetched, instVars,
                   callVars, aggVars, histVars>>

RaceNext ==
    \/ \E i \in Callers, q \in Queries : RaceCall(i, q)
    \/ \E i \in Callers : RaceAcquireCheck(i)
    \/ \E i \in Callers : RaceCheck(i)
    \/ \E i \in Callers : RaceProviderFails(i)
    \/ \E i \in Callers : RaceProviderReturns(i)
    \/ \E i \in Callers : RaceAcquireStore(i)
    \/ \E i \in Callers : RaceStore(i)
    \/ \E i \in Callers : RaceReturn(i)

\* one instance, MaxCallers threads about to call _search_duckduckgo
InitRace ==
    /\ history = <<>>
    /\ search_cache = [q \in {} |-> NoUrls]
    /\ max_history \in {MaxHistoryCfg}
    /\ max_search_results \in 1..MaxResultsCfg
    /\ pc = "idle" /\ mode = "race" /\ question = "q1"
    /\ max_results = max_search_results
    /\ history_context = <<>> /\ urls = NoUrls /\ answer = NoAnswer
    /\ raised = FALSE
    /\ AggIdle
    /\ pages = {}
    /\ providerCalls = 0 /\ aggCalls = 0 /\ genCalls = 0 /\ genErr = ""
    /\ searchErr = FALSE
    /\ calls = <<>>
    /\ results = <<>>
    /\ callers = [i \in 1..MaxCallers |-> IdleCaller]
    /\ cache_lock = 0
    /\ produced = {}

SpecRace == InitRace /\ [][RaceNext]_vars

\* ---------------------------------------------- _process_urls_parallel
Tasks == DOMAIN fstate

Running == {t \in Tasks : fstate[t] = "running"}

\* len(combined_text): every appended text is followed by "\n\n"
RECURSIVE CombinedLen(_, _)
CombinedLen(ct, res) ==
    IF ct = <<>> THEN 0
    ELSE res[Head(ct)] + SepLen + CombinedLen(Tail(ct), res)

\* if len(combined_text) > 5000: break
OverThreshold(len) == len > SizeThreshold

\* positions at which the executor's workers are alive for this batch
AggActive == pc \in {"agg_enter", "agg_loop", "agg_cancel", "agg_exit"}

\* no page was served to the task (yet)
NotFetched == -2

\* session.get or the parse raised
FetchError == -1

\* what a fetch can meet: a page of the web, or an error
Fetches == pages \cup {FetchError}

\* _extract_article_fast(url): the returned text
ExtractArticle(page) ==
    IF page = FetchError THEN ExtractFailed ELSE ExtractText(page)

\* the pool takes work whatever the number of running tasks
WorkerFreeAlways(running) == TRUE

\* ThreadPoolExecutor(max_workers=5): a worker is idle or can be created
WorkerFree(running) == running < MaxWorkers

\* cancel() has no effect
CancelFutureNoop(state) == state

\* future.cancel(): a future that is not running yet is cancelled
CancelFuture(state) == IF state = "pending" THEN "cancelled" ELSE state

\* combined_text = ""; successful_count = 0; executor.submit(...) for each url
AggSubmit ==
    /\ pc = "agg_call"
    /\ fstate' = [t \in 1..Len(urls) |-> "pending"]
    /\ result' = [t \in 1..Len(urls) |-> 0]
    /\ fetched' = [t \in 1..Len(urls) |-> NotFetched]
    /\ combined_text' = <<>> /\ successful_count' = 0
    /\ aggCalls' = aggCalls + 1
    /\ pc' = "agg_enter"
    /\ UNCHANGED <<moreVars, results,
                   instVars, mode, question, max_results, history_context,
                   urls, answer, raised, snap, waiterQ, yielded, cancelIdx,
                   stop, pages, completions, inOrder, lateInOrder, atTimeout, providerCalls, genCalls,
                   genErr, searchErr, timedOut, calls>>

\* the head of the executor's FIFO work queue: cancelled items are skipped
QueueHead(t) ==
    /\ fstate[t] = "pending"
    /\ \A u \in Tasks : u < t => fstate[u] # "pending"

\* a worker takes the next queued task and starts _extract_article_fast
TaskStart(t) ==
    /\ AggActive
    /\ t \in Tasks /\ QueueHead(t)
    /\ WorkerFree(Cardinality(Running))
    /\ fstate' = [fstate EXCEPT ![t] = "running"]
    /\ UNCHANGED <<moreVars, results, fetched,
                   instVars, callVars, result, snap, waiterQ, yielded,
                   combined_text, successful_count, cancelIdx, stop, histVars>>

\* _extract_article_fast returns; the future is set and its waiters notified
TaskFinish(t, page) ==
    /\ AggActive
    /\ t \in Tasks /\ fstate[t] = "running"
    /\ fstate' = [fstate EXCEPT ![t] = "finished"]
    /\ fetched' = [fetched EXCEPT ![t] = page]
    /\ result' = [result EXCEPT ![t] = ExtractArticle(page)]
    /\ completions' = IF pc \in {"agg_enter", "agg_loop"}
                      THEN Append(completions, t) ELSE completions
    /\ waiterQ' = IF pc = "agg_loop" THEN Append(waiterQ, t) ELSE waiterQ
    /\ UNCHANGED <<moreVars, results,
                   instVars, callVars, snap, yielded, combined_text,
                   successful_count, cancelIdx, stop, pages, inOrder,
                   lateInOrder, atTimeout, providerCalls, aggCalls, genCalls, genErr,
                   searchErr, timedOut, calls>>

\* the texts _extract_article_fast can return
Contents == {ExtractText(raw) : raw \in pages} \cup {ExtractFailed}

\* as_completed(...) is entered: the futures already finished are taken as a
\* set, a waiter is installed on the others
AggEnter ==
    /\ pc = "agg_enter"
    /\ snap' = {t \in Tasks : fstate[t] = "finished"}
    /\ pc' = "agg_loop"
    /\ UNCHANGED <<moreVars, results, fetched,
                   instVars, mode, question, max_results, history_context,
                   urls, answer, raised, fstate, result, waiterQ, yielded,
                   combined_text, successful_count, cancelIdx, stop, histVars>>

\* the futures as_completed may yield next: any of the set taken at entry,
\* then the waiter's list in completion order
NextYield ==
    IF snap # {} THEN snap
    ELSE IF waiterQ # <<>> THEN {Head(waiterQ)} ELSE {}

\* a usable text that completed before t's has not been yielded yet
UsableBefore(t) ==
    \E i, j \in 1..Len(completions) :
        i < j /\ completions[j] = t /\ IsUsable(result[completions[i]])

\* one iteration of the for loop: future.result(), the usable test, the
\* append and the size test
AggYield(t) ==
    /\ pc = "agg_loop"
    /\ t \in NextYield
    /\ snap' = snap \ {t}
    /\ waiterQ' = IF snap # {} THEN waiterQ ELSE Tail(waiterQ)
    /\ yielded' = yielded \cup {t}
    /\ IF IsUsable(result[t])
       THEN /\ combined_text' = Append(combined_text, t)
            /\ successful_count' = successful_count + 1
            /\ IF OverThreshold(CombinedLen(combined_text', result))
               THEN stop' = "size" /\ pc' = "agg_exit"
               ELSE stop' = stop /\ pc' = pc
       ELSE UNCHANGED <<combined_text, successful_count, stop, pc>>
    /\ completions' = SelectSeq(completions, LAMBDA u : u # t)
    /\ inOrder' = (inOrder /\ (IsUsable(result[t]) => ~UsableBefore(t)))
    /\ lateInOrder' = (lateInOrder /\
                        (snap = {} /\ IsUsable(result[t]) => ~UsableBefore(t)))
    /\ UNCHANGED <<moreVars, results, fetched,
                   instVars, mode, question, max_results, history_context,
                   urls, answer, raised, fstate, result, cancelIdx, pages,
                   atTimeout, providerCalls, aggCalls, genCalls, genErr,
                   searchErr, timedOut, calls>>

\* every future was yielded: the for loop ends
AggExhausted ==
    /\ pc = "agg_loop"
    /\ yielded = Tasks
    /\ stop' = "exhausted"
    /\ pc' = "agg_exit"
    /\ UNCHANGED <<moreVars, results, fetched,
                   instVars, mode, question, max_results, history_context,
                   urls, answer, raised, fstate, result, snap, waiterQ,
                   yielded, combined_text, successful_count, cancelIdx,
                   histVars>>

\* the loop resumes after the timeout
AfterTimeoutResumes == "agg_loop"

\* except concurrent.futures.TimeoutError: leave the loop, cancel the futures
AfterTimeout == "agg_cancel"

\* as_completed raises TimeoutError: the deadline has passed while futures
\* are still to be yielded
AggTimeout ==
    /\ pc = "agg_loop"
    /\ snap = {}
    /\ yielded # Tasks
    /\ ~timedOut
    /\ stop' = "timeout"
    /\ timedOut' = TRUE
    /\ atTimeout' = combined_text
    /\ cancelIdx' = 1
    /\ pc' = AfterTimeout
    /\ UNCHANGED <<moreVars, results, fetched,
                   instVars, mode, question, max_results, history_context,
                   urls, answer, raised, fstate, result, snap, waiterQ,
                   yielded, combined_text, successful_count, pages,
                   completions, inOrder, lateInOrder, providerCalls, aggCalls, genCalls,
                   genErr, searchErr, calls>>

\* for future in future_to_url: future.cancel()  (one future per step)
AggCancel ==
    /\ pc = "agg_cancel"
    /\ cancelIdx \in Tasks
    /\ fstate' = [fstate EXCEPT ![cancelIdx] = CancelFuture(fstate[cancelIdx])]
    /\ cancelIdx' = cancelIdx + 1
    /\ pc' = IF cancelIdx = Len(fstate) THEN "agg_exit" ELSE pc
    /\ UNCHANGED <<moreVars, results, fetched,
                   instVars, mode, question, max_results, history_context,
                   urls, answer, raised, result, snap, waiterQ, yielded,
                   combined_text, successful_count, stop, histVars>>

\* the with block is left without waiting for the workers
ExecutorNotJoined == TRUE

\* executor.shutdown(wait=True) has joined the workers: no task is queued
\* or running
ExecutorJoined == \A t \in Tasks : fstate[t] \in {"finished", "cancelled"}

\* the with block is left and combined_text is returned
AggReturn ==
    /\ pc = "agg_exit"
    /\ ExecutorJoined
    /\ pc' = IF mode = "chat" THEN "rag_extracted" ELSE "agg_done"
    /\ UNCHANGED <<moreVars, results, fetched,
                   instVars, mode, question, max_results, history_context,
                   urls, answer, raised, aggVars, histVars>>

AggNext ==
    \/ AggSubmit
    \/ \E t \in Tasks : TaskStart(t)
    \/ \E t \in Tasks, page \in Fetches : TaskFinish(t, page)
    \/ AggEnter
    \/ \E t \in Tasks : AggYield(t)
    \/ AggExhausted
    \/ AggTimeout
    \/ AggCancel
    \/ AggReturn

\* a direct call _process_urls_parallel(urls)
InitAgg ==
    /\ history = <<>>
    /\ search_cache = [q \in {} |-> NoUrls]
    /\ max_history \in {MaxHistoryCfg}
    /\ max_search_results \in {MaxResultsCfg}
    /\ pc = "agg_call" /\ mode = "aggregate" /\ question = "q1"
    /\ max_results = max_search_results
    /\ history_context = <<>> /\ answer = NoAnswer /\ raised = FALSE
    /\ \E n \in 1..MaxUrls : urls = [i \in 1..n |-> "hue.vn"]
    /\ AggIdle
    /\ pages = BatchPages
    /\ providerCalls = 0 /\ aggCalls = 0 /\ genCalls = 0 /\ genErr = ""
    /\ searchErr = FALSE
    /\ calls = <<>>
    /\ results = <<>>
    /\ RaceIdle

SpecAgg == InitAgg /\ [][AggNext]_vars

\* a direct call _process_urls_parallel(urls) on the URLs of one search, the
\* pages around the length cap
InitExtract ==
    /\ history = <<>>
    /\ search_cache = [q \in {} |-> NoUrls]
    /\ max_history \in {MaxHistoryCfg}
    /\ max_search_results \in {MaxResultsCfg}
    /\ pc = "agg_call" /\ mode = "aggregate" /\ question = "q1"
    /\ max_results = max_search_results
    /\ history_context = <<>> /\ answer = NoAnswer /\ raised = FALSE
    /\ \E n \in 1..MaxResultsCfg : urls = [i \in 1..n |-> "hue.vn"]
    /\ AggIdle
    /\ pages = ExtractPages
    /\ providerCalls = 0 /\ aggCalls = 0 /\ genCalls = 0 /\ genErr = ""
    /\ searchErr = FALSE
    /\ calls = <<>>
    /\ results = <<>>
    /\ RaceIdle

SpecExtract == InitExtract /\ [][AggNext]_vars

\* a direct call _process_urls_parallel(urls) with up to MaxPoolUrls URLs
InitPool ==
    /\ history = <<>>
    /\ search_cache = [q \in {} |-> NoUrls]
    /\ max_history \in {MaxHistoryCfg}
    /\ max_search_results \in {MaxResultsCfg}
    /\ pc = "agg_call" /\ mode = "aggregate" /\ question = "q1"
    /\ max_results = max_search_results
    /\ history_context = <<>> /\ answer = NoAnswer /\ raised = FALSE
    /\ \E n \in 1..MaxPoolUrls : urls = [i \in 1..n |-> "hue.vn"]
    /\ AggIdle
    /\ pages = PoolPages
    /\ providerCalls = 0 /\ aggCalls = 0 /\ genCalls = 0 /\ genErr = ""
    /\ searchErr = FALSE
    /\ calls = <<>>
    /\ results = <<>>
    /\ RaceIdle

SpecPool == InitPool /\ [][AggNext]_vars

\* a direct call _process_urls_parallel(urls), the empty list included
InitLive ==
    /\ history = <<>>
    /\ search_cache = [q \in {} |-> NoUrls]
    /\ max_history \in {MaxHistoryCfg}
    /\ max_search_results \in {MaxResultsCfg}
    /\ pc = "agg_call" /\ mode = "aggregate" /\ question = "q1"
    /\ max_results = max_search_results
    /\ history_context = <<>> /\ answer = NoAnswer /\ raised = FALSE
    /\ \E n \in 0..MaxLiveUrls : urls = [i \in 1..n |-> "hue.vn"]
    /\ AggIdle
    /\ pages = LivePages
    /\ providerCalls = 0 /\ aggCalls = 0 /\ genCalls = 0 /\ genErr = ""
    /\ searchErr = FALSE
    /\ calls = <<>>
    /\ results = <<>>
    /\ RaceIdle

\* the calling thread takes its next step when it can: submit, enter
\* as_completed, take the next finished future, end the loop, cancel, leave
\* the with block.  (The deadline need not pass: AggTimeout is not fair.)
CallerProgress ==
    /\ WF_vars(AggSubmit)
    /\ WF_vars(AggEnter)
    /\ WF_vars(\E t \in Tasks : AggYield(t))
    /\ WF_vars(AggExhausted)
    /\ WF_vars(AggCancel)
    /\ WF_vars(AggReturn)

\* an idle worker takes the next queued task, and every fetch ends:
\* session.get(url, timeout=3) returns or raises
WorkerProgress ==
    /\ WF_vars(\E t \in Tasks : TaskStart(t))
    /\ WF_vars(\E t \in Tasks, page \in Fetches : TaskFinish(t, page))

SpecLive == InitLive /\ [][AggNext]_vars /\ CallerProgress /\ WorkerProgress

\* --------------------------------------------------- chat, _rag_process
\* chat(question): render the recent history, then _rag_process starts with
\* _search_duckduckgo(question)
CallChat(q) ==
    /\ pc = "idle" /\ Len(history) < MaxTurns
    /\ mode' = "chat" /\ question' = q
    /\ max_results' = max_search_results
    /\ history_context' = IF history # <<>>
                          THEN RecentHistory(history, max_history)
                          ELSE <<>>
    /\ urls' = NoUrls /\ answer' = NoAnswer /\ raised' = FALSE
    /\ pc' = "search_check"
    /\ ResetCounters
    /\ UNCHANGED <<moreVars, results, fetched,
                   instVars, aggVars, pages, completions, inOrder, lateInOrder, atTimeout,
                   timedOut, calls>>

\* urls = self._search_duckduckgo(question); if not urls: return sentinel
RagAfterSearch ==
    /\ pc = "search_ret" /\ mode = "chat"
    /\ IF SearchEmpty(urls)
       THEN answer' = NoInfo /\ pc' = "chat_append"
       ELSE answer' = answer /\ pc' = "agg_call"
    /\ UNCHANGED <<moreVars, results, fetched,
                   instVars, mode, question, max_results, history_context,
                   urls, raised, aggVars, histVars>>

\* not combined_text.strip(): no appended text has a visible character
CombinedBlank(ct, res) == \A i \in 1..Len(ct) : StripLen(res[ct[i]]) = 0

\* combined_text = self._process_urls_parallel(urls); if it is blank: sentinel
RagAfterExtract ==
    /\ pc = "rag_extracted"
    /\ IF CombinedBlank(combined_text, result)
       THEN answer' = NoExtract /\ pc' = "chat_append"
       ELSE answer' = answer /\ pc' = "generate"
    /\ UNCHANGED <<moreVars, results, fetched,
                   instVars, mode, question, max_results, history_context,
                   urls, raised, aggVars, histVars>>

\* answer = self._generate_answer(question, combined_text, history)
Generate ==
    /\ pc = "generate"
    /\ \E outcome \in GenOutcomes :
         LET r == GenerateAnswer(outcome)
         IN /\ genErr' = outcome.msg
            /\ IF r.raised
               THEN /\ raised' = TRUE /\ answer' = answer /\ pc' = "idle"
                    /\ history_context' = <<>> /\ urls' = NoUrls
                    /\ ResetAgg
               ELSE /\ raised' = raised /\ answer' = r.value
                    /\ pc' = "chat_append"
                    /\ UNCHANGED <<fetched, history_context, urls, aggVars,
                                   completions, inOrder, lateInOrder, atTimeout, timedOut>>
    /\ genCalls' = genCalls + 1
    /\ UNCHANGED <<moreVars, results, instVars, mode, question, max_results,
                   pages, providerCalls, aggCalls, searchErr, calls>>

\* the fallback answers are not recorded
AppendTurnSkipsSentinel(hist, q, a) ==
    IF a.kind = "sentinel" THEN hist ELSE Append(hist, [q |-> q, a |-> a])

\* self.history.append({"q": question, "a": answer})
AppendTurn(hist, q, a) == Append(hist, [q |-> q, a |-> a])

\* self.history.append({"q": question, "a": answer}); return answer
ChatAppend ==
    /\ pc = "chat_append"
    /\ history' = AppendTurn(history, question, answer)
    /\ pc' = "idle"
    /\ history_context' = <<>> /\ urls' = NoUrls
    /\ ResetAgg
    /\ UNCHANGED <<moreVars, results,
                   search_cache, max_history, max_search_results, mode,
                   question, max_results, answer, raised, pages,
                   providerCalls, aggCalls, genCalls, genErr, searchErr,
                   calls>>

Next ==
    \/ \E q \in ChatQuestions : CallChat(q)
    \/ SearchCheck
    \/ SearchProviderFails
    \/ SearchProviderReturns
    \/ SearchStore
    \/ RagAfterSearch
    \/ AggSubmit
    \/ \E t \in Tasks : TaskStart(t)
    \/ \E t \in Tasks, page \in Fetches : TaskFinish(t, page)
    \/ AggEnter
    \/ \E t \in Tasks : AggYield(t)
    \/ AggExhausted
    \/ AggTimeout
    \/ AggCancel
    \/ AggReturn
    \/ RagAfterExtract
    \/ Generate
    \/ ChatAppend

Spec == Init /\ [][Next]_vars

\* ================================================================ claims
MinOf(a, b) == IF a < b THEN a ELSE b

LastTurns(hist, k) == SubSeq(hist, Len(hist) - k + 1, Len(hist))

\* the search step of the chat in progress has returned
SearchDone ==
    /\ mode = "chat"
    /\ pc \in {"agg_call", "agg_enter", "agg_loop", "agg_cancel", "agg_exit",
               "rag_extracted", "generate", "chat_append"}

\* C1: when the search step of a chat yields an empty URL list, _rag_process
\* returns the 'no information found' sentinel and neither the fetch
\* aggregator nor the answer generator is invoked in that invocation.
C1_EmptySearchShortCircuits ==
    (SearchDone /\ urls = <<>>) =>
        /\ pc = "chat_append"
        /\ answer = NoInfo
        /\ aggCalls = 0 /\ genCalls = 0

\* an empty list served from the cache has produced the sentinel
C1_Witness ==
    /\ mode = "chat" /\ pc = "chat_append" /\ urls = <<>>
    /\ question \in DOMAIN search_cache /\ providerCalls = 0
    /\ answer = NoInfo

\* the aggregator of the chat in progress has returned
ExtractDone ==
    /\ mode = "chat"
    /\ pc \in {"rag_extracted", "generate", "chat_append"}
    /\ urls # <<>>

\* every fetch that ran gave fewer than 50 stripped characters ("" included)
AllFetchesShort ==
    \A t \in Tasks : fstate[t] = "finished" => StripLen(result[t]) < MinUsable

\* C2: for a non-empty URL list, when every fetch yields fewer than 50 usable
\* characters, fails or returns empty text, the combined text is empty,
\* _rag_process returns the 'could not extract' sentinel and the answer
\* generator is never invoked.
C2_NoUsableTextShortCircuits ==
    (ExtractDone /\ AllFetchesShort) =>
        /\ combined_text = <<>>
        /\ pc # "generate" /\ genCalls = 0
        /\ (pc = "chat_append" => answer = NoExtract)

\* two fetches, one failed or empty and one of 49 characters
C2_Witness ==
    /\ mode = "chat" /\ pc = "chat_append" /\ Len(urls) = 2
    /\ \E t, u \in Tasks :
         /\ fstate[t] = "finished" /\ result[t] = 0
         /\ fstate[u] = "finished" /\ result[u] = 49
    /\ answer = NoExtract

\* C3: when the generation call fails, _generate_answer does not raise: the
\* answer embeds the error's message, chat returns it and stores it as the
\* last turn, and no exception leaves the pipeline.
C3_GenerationFailureIsAnAnswer ==
    /\ ~raised
    /\ (genErr # "" /\ pc \in {"chat_append", "idle"}) =>
           answer = [kind |-> "error", text |-> genErr]
    /\ (genErr # "" /\ pc = "idle") =>
           /\ history # <<>>
           /\ history[Len(history)] = [q |-> question, a |-> answer]

\* after a turn answered by a generation error, a later chat was answered
\* by the generator
C3_Witness ==
    /\ pc = "idle"
    /\ \E i, j \in 1..Len(history) :
         /\ i < j
         /\ history[i].a.kind = "error"
         /\ history[j].a.kind = "generated"

\* calls i and j are consecutive calls for one query, the first without a
\* cache entry (it went to the provider)
FirstAndSecond(i, j) ==
    /\ i < j
    /\ calls[i].q = calls[j].q
    /\ calls[i].provider > 0
    /\ \A k \in 1..Len(calls) : (i < k /\ k < j) => calls[k].q # calls[i].q

\* C4 as stated: after a first call for an uncached query, a second call with
\* the same query returns the same list without a provider call, whatever
\* the outcome of the first call.
C4_Original ==
    \A i, j \in 1..Len(calls) :
        FirstAndSecond(i, j) =>
            calls[j].ret = calls[i].ret /\ calls[j].provider = 0

\* C4 amended: the same, provided the provider did not fail during the first
\* call.
C4_SecondCallServedFromCache ==
    \A i, j \in 1..Len(calls) :
        (FirstAndSecond(i, j) /\ ~calls[i].failed) =>
            calls[j].ret = calls[i].ret /\ calls[j].provider = 0

\* a non-empty fresh result was served again, for another max_results
C4_Witness ==
    \E i, j \in 1..Len(calls) :
        /\ FirstAndSecond(i, j) /\ ~calls[i].failed
        /\ calls[i].ret # <<>> /\ calls[j].ret = calls[i].ret
        /\ calls[j].provider = 0 /\ calls[j].mr # calls[i].mr

\* C5: every call _search_duckduckgo(query, max_results) returns at most
\* max_results URLs, also after earlier calls for the same query with another
\* max_results.
C5_Claim ==
    (pc = "search_ret") => Len(urls) <= max_results

\* C6: for every max_history N >= 0, the turns rendered into the history
\* block are exactly the last min(N, len(history)) stored turns, in order,
\* and never more than N.
C6_Claim ==
    (mode = "chat" /\ pc # "idle") =>
        /\ history_context =
               LastTurns(history, MinOf(max_history, Len(history)))
        /\ Len(history_context) <= max_history

\* accumulation has stopped on the size threshold or on the deadline
StoppedEarly == pc = "agg_exit" /\ stop \in {"size", "timeout"}

\* C7: when accumulation stops on the size threshold or on the deadline,
\* _process_urls_parallel returns without waiting for the fetch tasks that
\* are still executing or queued.
C7_Claim ==
    StoppedEarly => ENABLED AggReturn

\* C8 as stated: when accumulation stops on the size threshold, the combined
\* text has at most 5000 + (2000 + marker length) characters.
C8_Original ==
    (stop = "size") =>
        CombinedLen(combined_text, result) <=
            SizeThreshold + DocCap + MarkerLen

\* C8 amended: at most 5000 + (2000 + marker length + the 2 characters of the
\* separator appended after the last text).
C8_SizeStopBound ==
    (stop = "size") =>
        CombinedLen(combined_text, result) <=
            SizeThreshold + DocCap + MarkerLen + SepLen

\* the bound is met: 5000 characters before the last capped text
C8_Witness ==
    /\ stop = "size"
    /\ CombinedLen(combined_text, result) =
           SizeThreshold + DocCap + MarkerLen + SepLen

\* the texts of the batch whose stripped length is above 50
UsableTasks == {t \in Tasks : StripLen(result[t]) > MinUsable}

\* the combined text holds every usable text once and nothing else, and the
\* counter counts them
ExactlyUsable ==
    /\ \A t \in Tasks : fstate[t] = "finished"
    /\ {combined_text[i] : i \in 1..Len(combined_text)} = UsableTasks
    /\ Len(combined_text) = Cardinality(UsableTasks)
    /\ successful_count = Len(combined_text)

\* the batch was collected to the end: no deadline, no size stop
CollectedAll == pc \in {"agg_exit", "agg_done"} /\ stop = "exhausted"

\* C9 as stated: when all fetches complete before the deadline and the size
\* threshold is not exceeded, the combined text is exactly the usable texts,
\* each once, in task completion order, and the counter equals their number.
C9_Original ==
    CollectedAll => (ExactlyUsable /\ inOrder)

\* C9 amended: ... exactly the usable texts, each once, and the counter equals
\* their number; the order is completion order for the tasks that complete
\* after collection has started, and unspecified among the tasks that had
\* already completed when collection started.
C9_ExactlyTheUsableTexts ==
    CollectedAll => (ExactlyUsable /\ lateInOrder)

\* three usable texts of four, one of them appended before a text that
\* completed earlier
C9_Witness ==
    /\ pc = "agg_done" /\ stop = "exhausted"
    /\ Cardinality(Tasks) = 4 /\ successful_count = 3
    /\ Len(combined_text) = 3
    /\ ~inOrder

\* C10: once as_completed has raised the deadline's TimeoutError, no result
\* is appended: the combined text stays what it was at that moment, up to and
\* including the return.
C10_NothingAppendedAfterDeadline ==
    timedOut => combined_text = atTimeout

\* a usable text completed after the loop was left, and was not appended
C10_Witness ==
    /\ pc = "agg_done" /\ timedOut
    /\ \E t \in Tasks :
         /\ fstate[t] = "finished" /\ StripLen(result[t]) > MinUsable
         /\ t \notin yielded
         /\ \A i \in 1..Len(completions) : completions[i] # t
         /\ \A i \in 1..Len(combined_text) : combined_text[i] # t

\* the cancel loop has requested the cancellation of every future
AllCancelRequested == cancelIdx = Len(fstate) + 1

\* this step is the call future.cancel() on the future at cancelIdx
CancelStep == pc = "agg_cancel" /\ cancelIdx' = cancelIdx + 1

\* what cancel() does to its future: a task that has not started is
\* cancelled, a task that has started or ended is left as it is
CancelEffect ==
    CancelStep =>
        /\ cancelIdx \in Tasks
        /\ fstate[cancelIdx] = "pending" => fstate'[cancelIdx] = "cancelled"
        /\ fstate[cancelIdx] # "pending" =>
               fstate'[cancelIdx] = fstate[cancelIdx]
        /\ \A t \in Tasks \ {cancelIdx} : fstate'[t] = fstate[t]

\* within a batch a cancelled task stays cancelled and is served no page; a
\* started task is never cancelled, it goes on to its end
TaskFates ==
    (Tasks' = Tasks) =>
        \A t \in Tasks :
            /\ fstate[t] = "cancelled" =>
                   fstate'[t] = "cancelled" /\ fetched'[t] = NotFetched
            /\ fstate[t] = "running" => fstate'[t] \in {"running", "finished"}
            /\ fstate[t] = "finished" => fstate'[t] = "finished"

\* after the deadline the function is left only when every future was asked
\* to cancel; then each task has run to its end or was cancelled unfetched
DeadlineOutcome ==
    /\ (timedOut /\ pc \in {"agg_exit", "agg_done"}) => AllCancelRequested
    /\ (timedOut /\ pc = "agg_done") =>
           \A t \in Tasks :
               \/ fstate[t] = "finished" /\ fetched[t] # NotFetched
               \/ fstate[t] = "cancelled" /\ fetched[t] = NotFetched

\* C11: on reaching the aggregate deadline the aggregator requests the
\* cancellation of every task of the batch; a task that has not started when
\* its cancellation is requested is cancelled and never performs its fetch; a
\* task that has started is not interrupted and runs to completion.
C11_DeadlineCancelsUnstartedOnly ==
    []DeadlineOutcome /\ [][CancelEffect /\ TaskFates]_vars

\* every future was asked to cancel: the five tasks the workers had started
\* are still executing, a queued one was cancelled before it fetched
C11_Witness ==
    /\ pc = "agg_exit" /\ timedOut /\ AllCancelRequested
    /\ Cardinality(Running) = 5
    /\ \E t \in Tasks : fstate[t] = "cancelled" /\ fetched[t] = NotFetched

\* the batch has been submitted
Submitted == pc # "agg_call" /\ mode = "aggregate"

\* C12: for a URL list of any length, every URL is submitted as a task at the
\* start of the batch (before anything is collected), and at most 5 fetch
\* tasks of the batch are executing at any time.
C12_EagerSubmitFiveWorkers ==
    /\ Cardinality(Running) <= 5
    /\ Submitted => Len(fstate) = Len(urls)
    /\ ~Submitted => (fstate = <<>> /\ yielded = {} /\ combined_text = <<>>)

\* more URLs than workers: five tasks execute and the others are queued
C12_Witness ==
    /\ Submitted /\ Len(urls) > 5
    /\ Cardinality(Running) = 5
    /\ \E t \in Tasks : fstate[t] = "pending"

\* the lock is held exactly by the caller that is inside one of the two with
\* blocks; a caller in the external search does not hold it
LockDiscipline ==
    \A i \in Callers :
        /\ callers[i].pc \in {"checking", "storing"} <=> cache_lock = i
        /\ callers[i].pc = "provider" => cache_lock # i

\* the cache is written only by the caller that holds the lock
StoreUnderLock ==
    search_cache' # search_cache =>
        \E i \in Callers : cache_lock = i /\ callers[i].pc = "storing"

\* C13: the cache presence check and the cache store each run under the cache
\* lock and the external search runs outside it; two concurrent calls with
\* the same uncached query can both invoke the provider and both store (the
\* witness).
C13_CheckAndStoreLockedSearchUnlocked ==
    []LockDiscipline /\ [][StoreUnderLock]_vars

\* two callers with one query: each has called the provider, each has stored
C13_Witness ==
    \E i, j \in Callers :
        /\ i # j /\ callers[i].q = callers[j].q
        /\ callers[i].provider = 1 /\ callers[j].provider = 1
        /\ callers[i].stored /\ callers[j].stored

\* this step is the failure of the provider call
ProviderFailureStep == pc = "search_provider" /\ searchErr'

\* the provider call of the call in progress has failed
SearchFailed == searchErr /\ pc # "idle"

\* a call whose provider call failed returns the empty list at once, no
\* exception leaves it, and the provider was called once
FailedSearchReturnsEmpty ==
    /\ ~raised
    /\ SearchFailed =>
           (pc = "search_ret" /\ urls = <<>> /\ providerCalls = 1)
    /\ \A k \in 1..Len(calls) :
           calls[k].failed => (calls[k].ret = <<>> /\ calls[k].provider = 1)

\* from the failure to the return of the call the cache does not change
FailureLeavesCache ==
    (ProviderFailureStep \/ SearchFailed) =>
        /\ search_cache' = search_cache
        /\ question \notin DOMAIN search_cache'

\* C14: when the search provider fails during _search_duckduckgo, the call
\* returns an empty URL list without raising and without retrying the
\* provider, and the cache is left unchanged: no entry is created or
\* overwritten for that query.
C14_ProviderFailureFailsSoft ==
    []FailedSearchReturnsEmpty /\ [][FailureLeavesCache]_vars

\* a failed call has returned []: its query has no entry, the entry of
\* another query is still there
C14_Witness ==
    /\ pc = "idle" /\ mode = "search" /\ searchErr
    /\ calls # <<>>
    /\ calls[Len(calls)].failed /\ calls[Len(calls)].ret = <<>>
    /\ calls[Len(calls)].q \notin DOMAIN search_cache
    /\ \E q \in DOMAIN search_cache : search_cache[q] # <<>>

\* the counters of the chat in progress: provider, aggregator and generation
\* service were each called at most once, one task was submitted per URL
CalledAtMostOnce ==
    mode = "chat" =>
        /\ providerCalls <= 1 /\ aggCalls <= 1 /\ genCalls <= 1
        /\ Len(fstate) <= Len(urls)
        /\ \A t \in Tasks : fetched[t] # NotFetched <=> fstate[t] = "finished"

\* a task that has fetched its page does not fetch again: it stays finished
\* with the page it was served
FetchedOnce ==
    \A t \in Tasks :
        (fetched[t] # NotFetched /\ t \in DOMAIN fetched') =>
            fetched'[t] = fetched[t] /\ fstate'[t] = "finished"

\* C15: within one chat invocation every external call is attempted at most
\* once: the search provider at most once, each submitted URL task at most
\* one page fetch, the generation service at most once, in every outcome,
\* failures and timeouts included.
C15_ExternalCallsAtMostOnce ==
    []CalledAtMostOnce /\ [][FetchedOnce]_vars

\* a chat that met the aggregate deadline and a generation error: one
\* provider call, one fetch per started task, one generation call
C15_Witness ==
    /\ mode = "chat" /\ pc = "chat_append"
    /\ timedOut /\ genErr # ""
    /\ providerCalls = 1 /\ aggCalls = 1 /\ genCalls = 1
    /\ \E t \in Tasks : fetched[t] # NotFetched

\* the URLs of the pool whose lowercase form contains a denylisted substring
DeniedUrls == {"FaceBook.com"}

NoneDenied(list) == \A i \in 1..Len(list) : list[i] \notin DeniedUrls

\* the first n URLs of list that are not denied, in the order of list
CleanPrefix(list, n) ==
    LET clean == SelectSeq(list, LAMBDA u : u \notin DeniedUrls)
    IN SubSeq(clean, 1, MinOf(n, Len(clean)))

\* the list built from the provider's results, and every list returned or
\* cached
FilteredAsSpecified ==
    /\ pc = "search_store" => urls = CleanPrefix(results, max_results)
    /\ pc = "search_ret" => NoneDenied(urls)
    /\ \A k \in 1..Len(calls) : NoneDenied(calls[k].ret)
    /\ \A q \in DOMAIN search_cache : NoneDenied(search_cache[q])

\* the list built from the provider's results is the one stored and returned
FreshListReturned ==
    pc = "search_store" => (urls' = urls /\ pc' = "search_ret")

\* C16: on a cache miss with a successful provider call the returned list is
\* exactly the first max_results URLs, in provider order, among the results
\* whose lowercase form contains no denylisted substring (fewer if fewer
\* survive); no returned URL, fresh or cached, contains a denylisted
\* substring.
C16_FirstCleanUrlsInProviderOrder ==
    []FilteredAsSpecified /\ [][FreshListReturned]_vars

\* three results, the first one denied in mixed case: the two others are
\* kept, in order
C16_Witness ==
    /\ pc = "search_store" /\ max_results = 2
    /\ Len(results) = 3 /\ results[1] = "FaceBook.com"
    /\ urls = <<results[2], results[3]>>

\* every cached list is the list one call built for that query, and every
\* list a call built is filtered and capped
CacheFromOneCall ==
    /\ \A q \in DOMAIN search_cache : <<q, search_cache[q]>> \in produced
    /\ \A p \in produced :
           NoneDenied(p[2]) /\ Len(p[2]) <= max_search_results

\* no step removes a key of the cache
KeysKept == DOMAIN search_cache \subseteq DOMAIN search_cache'

\* C17: in every reachable state, also after interleavings of concurrent
\* calls for one query, each cache value equals the filtered, length-capped
\* list produced by exactly one search call, never a merge or a partial write
\* of several calls' results; a key once present is never removed.
C17_CacheHoldsOneCallsList ==
    []CacheFromOneCall /\ [][KeysKept]_vars

\* two callers built different non-empty lists for one query and both
\* stored: the cache holds the list of one of them
C17_Witness ==
    \E i, j \in Callers :
        /\ i # j /\ callers[i].q = callers[j].q
        /\ callers[i].stored /\ callers[j].stored
        /\ callers[i].urls # <<>> /\ callers[j].urls # <<>>
        /\ callers[i].urls # callers[j].urls
        /\ search_cache[callers[i].q] = callers[j].urls

\* the text task t returned, against the page its fetch was served
ExtractedAsSpecified(t) ==
    /\ result[t] <= 2000 + MarkerLen
    /\ fetched[t] = FetchError => result[t] = 0
    /\ (fetched[t] >= 0 /\ fetched[t] <= 2000) => result[t] = fetched[t]
    /\ fetched[t] > 2000 => result[t] = 2000 + MarkerLen

\* C18: for every fetched page the text returned by _extract_article_fast has
\* at most 2000 characters plus the length of the truncation marker, the
\* marker is appended only when the text was cut, and on a fetch or parse
\* failure the result is the empty string.
C18_ExtractedTextIsCapped ==
    \A t \in Tasks : fstate[t] = "finished" => ExtractedAsSpecified(t)

\* a text of exactly 2000 characters came back whole, one of 2001 characters
\* came back cut and marked
C18_Witness ==
    \E t, u \in Tasks :
        /\ fstate[t] = "finished" /\ fetched[t] = 2000 /\ result[t] = 2000
        /\ fstate[u] = "finished" /\ fetched[u] = 2001
        /\ result[u] = 2000 + MarkerLen

\* this step is the return of chat() to its caller
ChatReturns == mode = "chat" /\ pc # "idle" /\ pc' = "idle" /\ ~raised'

\* the return of chat() leaves the history one turn longer: the old turns as
\* they were, then the question with the answer that is returned
ReturnAppendsOneTurn ==
    ChatReturns =>
        /\ answer' = answer
        /\ Len(history') = Len(history) + 1
        /\ SubSeq(history', 1, Len(history)) = history
        /\ history'[Len(history')] = [q |-> question, a |-> answer]

\* no other step changes the history
HistoryOnlyAtReturn == history' # history => ChatReturns

\* C19: every call of chat that returns appends exactly one turn {question,
\* answer} to the end of the history, whose answer is the value returned to
\* the caller, also when it is a sentinel or a generation-error string;
\* stored turns are never modified, reordered or removed.
C19_OneTurnPerReturnedChat ==
    [][ReturnAppendsOneTurn /\ HistoryOnlyAtReturn]_vars

\* chats answered by a sentinel, by a generation error and by the generator
\* are all in the history, the last returned answer last
C19_Witness ==
    /\ pc = "idle" /\ mode = "chat" /\ Len(history) >= 3
    /\ history[Len(history)] = [q |-> question, a |-> answer]
    /\ \E i, j, k \in 1..Len(history) :
         /\ history[i].a = NoExtract
         /\ history[j].a.kind = "error"
         /\ history[k].a = Generated

\* the search step of the chat in progress has returned: it was a successful
\* provider call, a cache hit, or a provider failure
FreshSearch == SearchDone /\ providerCalls = 1 /\ ~searchErr
CachedSearch == SearchDone /\ providerCalls = 0
FailedSearch == SearchDone /\ providerCalls = 1 /\ searchErr

\* a successful provider call stores its list, the empty one too; a chat
\* that finds the empty list stored returns the sentinel without a provider
\* call; a failed provider call stores nothing
EmptyListIsCached ==
    /\ FreshSearch =>
           (question \in DOMAIN search_cache
            /\ search_cache[question] = urls)
    /\ ((SearchDone \/ pc = "search_ret")
        /\ question \in DOMAIN search_cache
        /\ search_cache[question] = <<>>) =>
           (urls = <<>> /\ (SearchDone => pc = "chat_append" /\ answer = NoInfo))
    /\ CachedSearch => question \in DOMAIN search_cache
    /\ FailedSearch =>
           (question \notin DOMAIN search_cache
            /\ pc = "chat_append" /\ answer = NoInfo)

\* the entry of the question decides whether the provider is contacted: with
\* an entry the chat goes on without a provider call, without one it calls
\* the provider
EntryDecidesProvider ==
    (mode = "chat" /\ pc = "search_check") =>
        IF question \in DOMAIN search_cache
        THEN /\ pc' = "search_ret" /\ providerCalls' = 0
             /\ urls' = search_cache[question]
        ELSE pc' = "search_provider"

\* the provider is contacted at the provider step
ProviderContacted ==
    (mode = "chat" /\ pc = "search_provider") => providerCalls' = 1

\* an entry stays as it was stored
EntryKept ==
    \A q \in DOMAIN search_cache :
        q \in DOMAIN search_cache' /\ search_cache'[q] = search_cache[q]

\* C20: a successful provider call that leaves no usable URL stores an empty
\* list, so every later chat with that question on the instance returns the
\* 'no information found' sentinel without contacting the provider; a
\* provider failure stores nothing and the next chat with that question
\* contacts the provider again.
C20_EmptyResultCachedFailureNot ==
    /\ []EmptyListIsCached
    /\ [][EntryDecidesProvider /\ ProviderContacted /\ EntryKept]_vars

\* the third chat or a later one is answered from the cached empty list
C20_Witness ==
    /\ CachedSearch /\ pc = "chat_append"
    /\ Len(history) >= 2
    /\ \A i \in 1..Len(history) : history[i].a = NoInfo
    /\ search_cache[question] = <<>> /\ answer = NoInfo

\* _process_urls_parallel has returned
AggReturned == pc = "agg_done"

\* at the return each task has completed or was cancelled: none is queued or
\* executing
NoTaskLeftBehind ==
    AggReturned =>
        \A t \in Tasks :
            \/ fstate[t] = "finished" /\ fetched[t] # NotFetched
            \/ fstate[t] = "cancelled" /\ fetched[t] = NotFetched

\* C21: if every page fetch eventually returns or times out,
\* _process_urls_parallel eventually returns for every finite URL list in
\* every interleaving (all completed, size threshold exceeded, deadline
\* reached), it never raises, and at its return no task of the batch is left
\* queued and unresolved.
C21_AggregatorReturns ==
    /\ <>AggReturned
    /\ [](~raised)
    /\ []NoTaskLeftBehind

\* returned after the deadline: a queued task was cancelled, another one
\* finished while the with block was being left
C21_Witness ==
    /\ AggReturned /\ timedOut
    /\ \E t, u \in Tasks :
         /\ fstate[t] = "cancelled"
         /\ fstate[u] = "finished" /\ u \notin yielded

====
